---- MODULE Spec2Model ----
(***************************************************************************)
(* Model of the agri-trace-grid ledger (MerkleTreeService over the         *)
(* MerkleLeaf collection), the batch-creation route, the anchoring script  *)
(* and the batch verification route.                                       *)
(*                                                                         *)
(* Digests are modelled symbolically as strings: sha256(s) is the term     *)
(* "H(" s ")", so two digests are equal exactly when their preimages are   *)
(* (the hash treated as collision-free), and left + right is string        *)
(* concatenation as in the code.                                           *)
(***************************************************************************)
EXTENDS Integers, Sequences, FiniteSets, TLC

\* ---------------------------------------------------------------- bounds
\* append calls started over a run of the whole system (batch creations included)
MaxAppends == 2
\* append calls started over a run of the ledger alone
MaxLeaves == 3
\* append calls started over a run of raw appends made one after another
MaxSeqLeaves == 4
\* roots the anchoring script gets to anchor over a run
MaxAnchors == 1

\* siblings in a proof submitted to POST /merkle/verify
MaxProofLen == 2
\* the largest leafIndex submitted to the /merkle routes
MaxIndex == 3

\* concurrent request handlers that may be inside appendLeaf
Procs == {1, 2}

\* ------------------------------------------------------------- sequences
RECURSIVE Join(_, _)
\* Array.prototype.join as JSON.stringify uses it between members
Join(parts, sep) ==
    IF parts = <<>> THEN ""
    ELSE IF Len(parts) = 1 THEN parts[1]
    ELSE parts[1] \o sep \o Join(Tail(parts), sep)

\* JSON.stringify of an object given as its members <<key, value>> in
\* insertion order (values already serialised); member order is kept.
JSONstringify(obj) ==
    "{" \o Join([k \in 1..Len(obj) |-> obj[k][1] \o ":" \o obj[k][2]], ",") \o "}"

\* ---------------------------------------------------------------- hashing
\* crypto.createHash('sha256').update(data).digest('hex')
hash(data) == "H(" \o data \o ")"

\* the concatenation taken in the other order
combineHashes_swapped(left, right) == hash(right \o left)

combineHashes(left, right) == hash(left \o right)

\* ------------------------------------------------------------ the ledger
VARIABLES
    leaves,      \* the MerkleLeaf collection: a set of documents
    app,         \* per handler: the appendLeaf call it is running
    started,     \* number of appendLeaf calls started
    returned,    \* results {index, root, leaf} of the calls that returned
    failed,      \* number of appendLeaf calls that threw
    batches,     \* the Batch collection: a set of documents
    anchors,     \* MerkleAnchor contract: the set of anchored roots
    ver,         \* the verification request being handled
    mv,          \* POST /merkle/verify: the last request and its answer
    rd,          \* GET /merkle/proof/:leafIndex, GET /merkle/root: the request
                 \* being answered and what it read
    bh           \* the last two createBatchHash calls: record and digest

vars == <<leaves, app, started, returned, failed, batches, anchors, ver, mv, rd, bh>>

\* the documents sorted by index ascending: find().sort({ index: 1 })
RECURSIVE SortedByIndex(_)
SortedByIndex(docs) ==
    IF docs = {} THEN <<>>
    ELSE LET m == CHOOSE d \in docs : \A e \in docs : d.index <= e.index
         IN  <<m>> \o SortedByIndex(docs \ {m})

\* findOne().sort({ index: -1 }): <<>> when the collection is empty
LastLeaf(docs) ==
    IF docs = {} THEN <<>>
    ELSE <<CHOOSE d \in docs : \A e \in docs : e.index <= d.index>>

\* hashes[leafIndex] = leafHash on a JS array (0-based leafIndex): overwrite,
\* append, or extend with holes, which read as undefined
SetAt(hashes, leafIndex, leafHash) ==
    [k \in 1..(IF leafIndex + 1 > Len(hashes) THEN leafIndex + 1 ELSE Len(hashes)) |->
        IF k = leafIndex + 1 THEN leafHash
        ELSE IF k <= Len(hashes) THEN hashes[k]
        ELSE "undefined"]

\* the next level with an odd last element promoted unpaired
NextLevel_promote(level) ==
    [k \in 1..((Len(level) + 1) \div 2) |->
        IF 2 * k <= Len(level)
        THEN combineHashes(level[2 * k - 1], level[2 * k])
        ELSE level[2 * k - 1]]

\* one pass of the for loop: the next level
NextLevel(level) ==
    [k \in 1..((Len(level) + 1) \div 2) |->
        combineHashes(level[2 * k - 1],
                      IF 2 * k <= Len(level) THEN level[2 * k] ELSE level[2 * k - 1])]

\* the push made at every level, the duplicate of an unpaired node included
ProofStep_always(level, currentIndex) ==
    LET i       == currentIndex - (currentIndex % 2)
        left    == level[i + 1]
        right   == IF i + 1 < Len(level) THEN level[i + 2] ELSE left
    IN  <<IF i = currentIndex THEN right ELSE left>>

\* what the for loop pushes on the proof at one level (0-based currentIndex)
ProofStep(level, currentIndex) ==
    LET i       == currentIndex - (currentIndex % 2)
        left    == level[i + 1]
        right   == IF i + 1 < Len(level) THEN level[i + 2] ELSE left
        sibling == IF i = currentIndex THEN right ELSE left
    IN  IF sibling /= left \/ i + 1 < Len(level) THEN <<sibling>> ELSE <<>>

RECURSIVE BuildTree(_, _, _)
\* the while loop of calculateRootAndProof
BuildTree(currentLevel, currentIndex, proof) ==
    IF Len(currentLevel) > 1
    THEN BuildTree(NextLevel(currentLevel), currentIndex \div 2,
                   proof \o ProofStep(currentLevel, currentIndex))
    ELSE [root |-> currentLevel[1], proof |-> proof]

\* the tree built for a single hash as well: the lone leaf paired with itself
calculateRootAndProof_pairsSingle(docs, leafIndex, leafHash) ==
    LET all    == SortedByIndex(docs)
        hashes == SetAt([k \in 1..Len(all) |-> all[k].hash], leafIndex, leafHash)
    IN  IF Len(hashes) = 1
        THEN [root |-> combineHashes(hashes[1], hashes[1]), proof |-> <<hashes[1]>>]
        ELSE BuildTree(hashes, leafIndex, <<>>)

\* calculateRootAndProof, given the documents its find() returned
calculateRootAndProof(docs, leafIndex, leafHash) ==
    LET all    == SortedByIndex(docs)
        hashes == SetAt([k \in 1..Len(all) |-> all[k].hash], leafIndex, leafHash)
    IN  IF Len(hashes) = 0 THEN [root |-> leafHash, proof |-> <<>>]
        ELSE IF Len(hashes) = 1 THEN [root |-> hashes[1], proof |-> <<>>]
        ELSE BuildTree(hashes, leafIndex, <<>>)

RECURSIVE FoldProof_skipLast(_, _, _)
\* the for loop stopping one sibling early (i < proof.length - 1)
FoldProof_skipLast(computedHash, proof, currentIndex) ==
    IF Len(proof) <= 1 THEN computedHash
    ELSE FoldProof_skipLast(IF currentIndex % 2 = 0
                            THEN combineHashes(computedHash, Head(proof))
                            ELSE combineHashes(Head(proof), computedHash),
                            Tail(proof), currentIndex \div 2)

RECURSIVE FoldProof(_, _, _)
\* the for loop of verifyProof
FoldProof(computedHash, proof, currentIndex) ==
    IF proof = <<>> THEN computedHash
    ELSE FoldProof(IF currentIndex % 2 = 0
                   THEN combineHashes(computedHash, Head(proof))
                   ELSE combineHashes(Head(proof), computedHash),
                   Tail(proof), currentIndex \div 2)

verifyProof(leaf, proof, leafIndex, root) ==
    FoldProof(leaf, proof, leafIndex) = root

\* getProof answering a missing index with the last leaf
getProof_lastOnMiss(docs, leafIndex) ==
    LET found == {d \in docs : d.index = leafIndex}
        leaf  == IF found = {} THEN LastLeaf(docs)
                 ELSE <<CHOOSE d \in found : TRUE>>
    IN  IF leaf = <<>> THEN <<>>
        ELSE <<[leaf |-> leaf[1].hash, proof |-> leaf[1].proof,
                leafIndex |-> leaf[1].index, root |-> leaf[1].root_hash]>>

\* getProof: <<>> for null, else the one MerkleProof
getProof(docs, leafIndex) ==
    LET found == {d \in docs : d.index = leafIndex}
    IN  IF found = {} THEN <<>>
        ELSE LET leaf == CHOOSE d \in found : TRUE
             IN  <<[leaf |-> leaf.hash, proof |-> leaf.proof,
                    leafIndex |-> leaf.index, root |-> leaf.root_hash]>>

\* getCurrentRoot: <<>> for null
getCurrentRoot(docs) ==
    IF LastLeaf(docs) = <<>> THEN <<>> ELSE <<LastLeaf(docs)[1].root_hash>>


\* ------------------------------------------------------------ signatures
\* key pairs are named by an id; generateKeyPair returns both halves
PrivateKey(id) == "sk-" \o id
PublicKey(id) == "pk-" \o id

\* the farmer of the one logged-in user, and a key pair that is not a batch's
FarmerId == "F1"
ForgerKey == "X"

BatchId(n) == "B" \o ToString(n)
BatchIds == {BatchId(n) : n \in 1..(MaxAppends + MaxLeaves)}
KeyIds == BatchIds \cup {ForgerKey}

\* signData: an ECDSA signature over sha256(data), as a term naming both
signData(data, privateKey) == "sig(" \o hash(data) \o "," \o privateKey \o ")"

\* characters after a hex string that are not hex digits
NonHexTail == "zz"

\* Buffer.from(str, 'hex') gives these bytes (written as their hex string):
\* decoding stops at the first character that is not a hex digit, so the
\* hex string itself and the hex string followed by other characters both do
BufferFromHex(str, bytes) ==
    \/ str = bytes
    \/ str = bytes \o NonHexTail

\* verifySignature: ecdsaVerify on the decoded signature and key is true
\* exactly for the signature the matching private key makes over the same
\* data; anything else (malformed included, through the catch) is false
verifySignature(data, signature, publicKey) ==
    \E id \in KeyIds :
        /\ BufferFromHex(publicKey, PublicKey(id))
        /\ BufferFromHex(signature, signData(data, PrivateKey(id)))

\* ------------------------------------------------------- request payloads
\* bodies of POST /merkle/append
RawData ==
    { << <<"a", "1">>, <<"b", "2">> >>,
      << <<"b", "2">>, <<"a", "1">> >> }

Crops == {"rice"}
Location == "{lat:1,lng:2}"
Metadata == "{quantity:5,unit:kg}"

\* new Date().toISOString(), e milliseconds after the request began; the
\* second reading of the creation route falls in the same millisecond or not
Timestamp(e) == "T" \o ToString(e)
Elapsed == {0, 1}

\* batchData / canonicalData of the creation route and of the seed script
BatchData(batch_id, farmer_id, crop, location, metadata, timestamp) ==
    << <<"batch_id", batch_id>>, <<"farmer_id", farmer_id>>, <<"crop", crop>>,
       <<"location", location>>, <<"metadata", metadata>>,
       <<"timestamp", timestamp>> >>

\* --------------------------------------------------------------- state
IdleApp ==
    [pc |-> "idle", kind |-> "", batch_id |-> "", crop |-> "", data |-> <<>>,
     leafHash |-> "", newIndex |-> 0, root |-> "", proof |-> <<>>]

NoResult ==
    [verified |-> FALSE, mode |-> "merkle", reason |-> "", merkle_proof |-> <<>>]

IdleVer ==
    [pc |-> "idle", qr |-> <<>>, batch_id |-> <<>>, batch |-> <<>>, leafIndex |-> 0,
     leafFound |-> FALSE, checked |-> <<>>, log |-> <<>>, result |-> NoResult]

Init ==
    /\ leaves = {}
    /\ app = [p \in Procs |-> IdleApp]
    /\ started = 0
    /\ returned = {}
    /\ failed = 0
    /\ batches = {}
    /\ anchors = {}
    /\ ver = IdleVer
    /\ mv = <<>>
    /\ rd = <<>>
    /\ bh = <<>>

\* ------------------------------------------------------------ appendLeaf
\* POST /merkle/append: appendLeaf(data, type, ...) up to its first await
AppendRoute(p, data) ==
    /\ app[p].pc = "idle"
    /\ app' = [app EXCEPT ![p] =
                 [IdleApp EXCEPT !.pc = "findLast", !.kind = "raw", !.data = data,
                                 !.leafHash = hash(JSONstringify(data))]]
    /\ started' = started + 1
    /\ UNCHANGED <<leaves, returned, failed, batches, anchors, ver, mv, rd, bh>>

\* POST /batches: batch_id, key pair and batchData, then appendLeaf(batchData)
CreateBatch(p, crop) ==
    /\ app[p].pc = "idle"
    /\ LET batch_id == BatchId(started + 1)
           data == BatchData(batch_id, FarmerId, crop, Location, Metadata,
                             Timestamp(0))
       IN  app' = [app EXCEPT ![p] =
             [IdleApp EXCEPT !.pc = "findLast", !.kind = "batch",
                             !.batch_id = batch_id, !.crop = crop, !.data = data,
                             !.leafHash = hash(JSONstringify(data))]]
    /\ started' = started + 1
    /\ UNCHANGED <<leaves, returned, failed, batches, anchors, ver, mv, rd, bh>>

\* const lastLeaf = await MerkleLeaf.findOne().sort({ index: -1 })
FindLast(p) ==
    /\ app[p].pc = "findLast"
    /\ LET lastLeaf == LastLeaf(leaves)
       IN  app' = [app EXCEPT ![p].pc = "calc",
                              ![p].newIndex = IF lastLeaf /= <<>>
                                              THEN lastLeaf[1].index + 1 ELSE 0]
    /\ UNCHANGED <<leaves, started, returned, failed, batches, anchors, ver, mv, rd, bh>>

\* const { root, proof } = await this.calculateRootAndProof(newIndex, leafHash)
Calculate(p) ==
    /\ app[p].pc = "calc"
    /\ LET r == calculateRootAndProof(leaves, app[p].newIndex, app[p].leafHash)
       IN  app' = [app EXCEPT ![p].pc = "save", ![p].root = r.root,
                              ![p].proof = r.proof]
    /\ UNCHANGED <<leaves, started, returned, failed, batches, anchors, ver, mv, rd, bh>>

\* the save on a collection without the unique index: always stored
SaveLeaf_noUnique(p) ==
    /\ app[p].pc = "save"
    /\ leaves' = leaves \cup
          {[index |-> app[p].newIndex, hash |-> app[p].leafHash,
            batch_id |-> app[p].batch_id, root_hash |-> app[p].root,
            proof |-> app[p].proof]}
    /\ app' = [app EXCEPT ![p].pc = "update"]
    /\ UNCHANGED <<started, returned, failed, batches, anchors, ver, mv, rd, bh>>

\* await merkleLeaf.save(): index is unique, a second document with the same
\* index is refused and the call throws
SaveLeaf(p) ==
    /\ app[p].pc = "save"
    /\ IF \E d \in leaves : d.index = app[p].newIndex
       THEN /\ app' = [app EXCEPT ![p] = IdleApp]
            /\ failed' = failed + 1
            /\ UNCHANGED leaves
       ELSE /\ leaves' = leaves \cup
                  {[index |-> app[p].newIndex, hash |-> app[p].leafHash,
                    batch_id |-> app[p].batch_id, root_hash |-> app[p].root,
                    proof |-> app[p].proof]}
            /\ app' = [app EXCEPT ![p].pc = "update"]
            /\ UNCHANGED failed
    /\ UNCHANGED <<started, returned, batches, anchors, ver, mv, rd, bh>>

\* updateMany({}, { root_hash: newRoot })
updateRootForAllLeaves(docs, newRoot) ==
    {[d EXCEPT !.root_hash = newRoot] : d \in docs}

\* await this.updateRootForAllLeaves(root); return { index, root, leaf }
UpdateRoots(p) ==
    /\ app[p].pc = "update"
    /\ leaves' = updateRootForAllLeaves(leaves, app[p].root)
    /\ returned' = returned \cup
          {[index |-> app[p].newIndex, root |-> app[p].root, leaf |-> app[p].leafHash]}
    /\ app' = [app EXCEPT ![p] = IF app[p].kind = "batch"
                                 THEN [app[p] EXCEPT !.pc = "qr"]
                                 ELSE IdleApp]
    /\ UNCHANGED <<started, failed, batches, anchors, ver, mv, rd, bh>>

\* the QR payload (its own new Date(), e readings after batchData's) and the
\* Batch document of the creation route
SaveBatch(p, e) ==
    /\ app[p].pc = "qr"
    /\ LET qrPayload ==
             [batch_id |-> app[p].batch_id, farmer_id |-> FarmerId,
              timestamp |-> Timestamp(e), merkle_leaf |-> app[p].leafHash,
              farmer_pubkey |-> PublicKey(app[p].batch_id),
              signature |-> signData(JSONstringify(app[p].data),
                                     PrivateKey(app[p].batch_id))]
       IN  batches' = batches \cup
             {[batch_id |-> app[p].batch_id, farmer_id |-> FarmerId,
               crop |-> app[p].crop, location |-> Location, metadata |-> Metadata,
               qr_data |-> qrPayload, merkle_leaf |-> app[p].leafHash,
               blockchain_tx |-> <<>>, isActive |-> TRUE]}
    /\ app' = [app EXCEPT ![p] = IdleApp]
    /\ UNCHANGED <<leaves, started, returned, failed, anchors, ver, mv, rd, bh>>


\* ------------------------------------------------------ scripts/anchor.ts
\* main(): the current root is read (with none the script ends there) and
\* submitted to MerkleAnchor.anchor, which records it
AnchorScript ==
    /\ Cardinality(anchors) < MaxAnchors
    /\ LET currentRoot == getCurrentRoot(leaves)
       IN  /\ currentRoot /= <<>>
           /\ anchors' = anchors \cup {currentRoot[1]}
    /\ UNCHANGED <<leaves, app, started, returned, failed, batches, ver, mv, rd, bh>>

\* MerkleAnchor.verifyAnchor(root).exists
verifyAnchor(root) == root \in anchors

\* ---------------------------------------------------------- POST /verify
\* the payload printed for a batch, and the same payload with a signature
\* made over the same message by another key pair
Forged(b) ==
    [b.qr_data EXCEPT !.signature =
        signData(JSONstringify(BatchData(b.qr_data.batch_id, b.qr_data.farmer_id,
                                         b.crop, b.location, b.metadata,
                                         b.qr_data.timestamp)),
                 PrivateKey(ForgerKey))]

\* the payload of a batch with a signature and a key that are not hex
Malformed(b) ==
    [b.qr_data EXCEPT !.signature = "zz", !.farmer_pubkey = "not-a-key"]

\* the payload of a batch with characters appended to its signature
Padded(b) ==
    [b.qr_data EXCEPT !.signature = @ \o NonHexTail]

UnknownQR ==
    [batch_id |-> "B0", farmer_id |-> FarmerId, timestamp |-> Timestamp(0),
     merkle_leaf |-> "", farmer_pubkey |-> PublicKey(ForgerKey), signature |-> ""]

\* request bodies that pass verifySchema: qr_json or batch_id
Requests ==
    {[qr_json |-> <<q>>, batch_id |-> <<>>] :
        q \in {b.qr_data : b \in batches} \cup {Forged(b) : b \in batches}
              \cup {Malformed(b) : b \in batches} \cup {Padded(b) : b \in batches}
              \cup {UnknownQR}}
    \cup {[qr_json |-> <<>>, batch_id |-> <<id>>] :
        id \in {b.batch_id : b \in batches} \cup {"B0"}}

\* the lookup without its batch_id filter: any active batch
FindBatch_anyBatch(batch_id) ==
    LET found == {b \in batches : b.isActive}
    IN  IF found = {} THEN <<>> ELSE <<CHOOSE b \in found : TRUE>>

\* Batch.findOne({ batch_id, isActive: true }): <<>> for null
FindBatch(batch_id) ==
    LET found == {b \in batches : b.batch_id = batch_id /\ b.isActive}
    IN  IF found = {} THEN <<>> ELSE <<CHOOSE b \in found : TRUE>>

\* verifyQRSignature: the message is rebuilt from the payload and the batch
verifyQRSignature(qrPayload, batch) ==
    LET originalData ==
            BatchData(qrPayload.batch_id, qrPayload.farmer_id, batch.crop,
                      batch.location, batch.metadata, qrPayload.timestamp)
    IN  verifySignature(JSONstringify(originalData), qrPayload.signature,
                        qrPayload.farmer_pubkey)

\* verifyBlockchainAnchor: whether the batch carries a transaction
verifyBlockchainAnchor_always(batch) == TRUE

verifyBlockchainAnchor(batch) == batch.blockchain_tx /= <<>>

\* the handler up to the batch lookup
VStart(req) ==
    /\ ver.pc = "idle"
    /\ LET qrPayload     == req.qr_json
           batchToVerify == IF req.qr_json /= <<>>
                            THEN FindBatch(req.qr_json[1].batch_id)
                            ELSE FindBatch(req.batch_id[1])
       IN  ver' = IF batchToVerify = <<>>
                  THEN [IdleVer EXCEPT !.pc = "done", !.qr = qrPayload,
                            !.batch_id = req.batch_id,
                            !.result = [NoResult EXCEPT
                                !.reason = "Batch not found in database"]]
                  ELSE [IdleVer EXCEPT
                            !.pc = IF qrPayload /= <<>> THEN "sig" ELSE "leafIndex",
                            !.qr = qrPayload, !.batch_id = req.batch_id,
                            !.batch = batchToVerify]
    /\ UNCHANGED <<leaves, app, started, returned, failed, batches, anchors, mv, rd, bh>>

\* 1. Verify QR signature if QR payload provided
VSignature_continue ==
    /\ ver.pc = "sig"
    /\ ver' = [ver EXCEPT !.pc = "leafIndex", !.log = Append(@, "sig")]
    /\ UNCHANGED <<leaves, app, started, returned, failed, batches, anchors, mv, rd, bh>>

VSignature ==
    /\ ver.pc = "sig"
    /\ LET signatureValid == verifyQRSignature(ver.qr[1], ver.batch[1])
       IN  ver' = IF ~signatureValid
                  THEN [ver EXCEPT !.pc = "done", !.log = Append(@, "sig"),
                            !.result.reason = "Invalid QR signature"]
                  ELSE [ver EXCEPT !.pc = "leafIndex", !.log = Append(@, "sig")]
    /\ UNCHANGED <<leaves, app, started, returned, failed, batches, anchors, mv, rd, bh>>

\* getMerkleLeafIndex: whether findOne({ hash }) gave a document
leafFound(leafHash, dbError) ==
    ~dbError /\ \E d \in leaves : d.hash = leafHash

\* getMerkleLeafIndex: the index of a leaf with that hash; 0 when there is
\* none, and 0 when the lookup throws
getMerkleLeafIndex(leafHash, dbError, idx) ==
    /\ IF dbError THEN idx = 0
       ELSE IF \E d \in leaves : d.hash = leafHash
            THEN \E d \in leaves : d.hash = leafHash /\ idx = d.index
            ELSE idx = 0

\* 2. verifyMerkleInclusion, first await: the leaf index
VLeafIndex(dbError) ==
    /\ ver.pc = "leafIndex"
    /\ \E idx \in 0..(MaxAppends + MaxLeaves) :
        /\ getMerkleLeafIndex(ver.batch[1].merkle_leaf, dbError, idx)
        /\ ver' = [ver EXCEPT !.pc = "getProof", !.leafIndex = idx,
                              !.leafFound = leafFound(ver.batch[1].merkle_leaf, dbError),
                              !.log = Append(@, "inclusion")]
    /\ UNCHANGED <<leaves, app, started, returned, failed, batches, anchors, mv, rd, bh>>

\* the inclusion step looking the leaf up again when the proof fails
VInclusion_retry ==
    /\ ver.pc = "getProof"
    /\ LET proof       == getProof(leaves, ver.leafIndex)
           merkleValid == IF proof = <<>> THEN FALSE
                          ELSE verifyProof(proof[1].leaf, proof[1].proof,
                                           proof[1].leafIndex, proof[1].root)
       IN  ver' = IF ~merkleValid
                  THEN [ver EXCEPT !.pc = "leafIndex", !.checked = proof]
                  ELSE [ver EXCEPT !.pc = "anchor", !.checked = proof]
    /\ UNCHANGED <<leaves, app, started, returned, failed, batches, anchors, mv, rd, bh>>

\* 2. verifyMerkleInclusion, second await: getProof and verifyProof
VInclusion ==
    /\ ver.pc = "getProof"
    /\ LET proof       == getProof(leaves, ver.leafIndex)
           merkleValid == IF proof = <<>> THEN FALSE
                          ELSE verifyProof(proof[1].leaf, proof[1].proof,
                                           proof[1].leafIndex, proof[1].root)
       IN  ver' = IF ~merkleValid
                  THEN [ver EXCEPT !.pc = "done", !.checked = proof,
                            !.result.reason = "Merkle proof verification failed"]
                  ELSE [ver EXCEPT !.pc = "anchor", !.checked = proof]
    /\ UNCHANGED <<leaves, app, started, returned, failed, batches, anchors, mv, rd, bh>>

\* 3. Check blockchain anchor (if available)
VAnchor ==
    /\ ver.pc = "anchor"
    /\ LET blockchainValid == verifyBlockchainAnchor(ver.batch[1])
       IN  ver' = [ver EXCEPT
                !.pc = "respIndex", !.log = Append(@, "anchor"),
                !.result.verified = TRUE,
                !.result.mode = IF blockchainValid THEN "both" ELSE "merkle",
                !.result.reason =
                    IF blockchainValid
                    THEN "Verified through both Merkle tree and blockchain anchor"
                    ELSE "Verified through Merkle tree (blockchain anchor pending or unavailable)"]
    /\ UNCHANGED <<leaves, app, started, returned, failed, batches, anchors, mv, rd, bh>>

\* Add Merkle proof to response, first await: the leaf index again
VRespIndex(dbError) ==
    /\ ver.pc = "respIndex"
    /\ \E idx \in 0..(MaxAppends + MaxLeaves) :
        /\ getMerkleLeafIndex(ver.batch[1].merkle_leaf, dbError, idx)
        /\ ver' = [ver EXCEPT !.pc = "respProof", !.leafIndex = idx]
    /\ UNCHANGED <<leaves, app, started, returned, failed, batches, anchors, mv, rd, bh>>

\* Add Merkle proof to response, second await: getProof; then res.json
VRespProof ==
    /\ ver.pc = "respProof"
    /\ ver' = [ver EXCEPT !.pc = "done",
                          !.result.merkle_proof = getProof(leaves, ver.leafIndex)]
    /\ UNCHANGED <<leaves, app, started, returned, failed, batches, anchors, mv, rd, bh>>

\* the response is sent and the handler is free for the next request
VRespond ==
    /\ ver.pc = "done"
    /\ ver' = IdleVer
    /\ UNCHANGED <<leaves, app, started, returned, failed, batches, anchors, mv, rd, bh>>

\* ---------------------------------------------------- POST /merkle/verify
\* digests a client may put in a request
Digests == {hash("a"), hash("b")}

\* the proof arrays of a request: up to MaxProofLen digests
Proofs == UNION {[1..k -> Digests] : k \in 0..MaxProofLen}

\* the roots a client may claim for a leaf and a proof: what the fold gives
\* for the proof or a prefix of it at some index, or another digest
ClaimedRoots(leaf, proof) ==
    {FoldProof(leaf, SubSeq(proof, 1, k), j) : k \in 0..Len(proof), j \in 0..MaxIndex}
    \cup {hash("x")}

\* request bodies that pass verifySchema: leaf, proof, leafIndex, root
MerkleVerifyRequests ==
    UNION {{[leaf |-> leaf, proof |-> proof, leafIndex |-> leafIndex, root |-> root] :
                root \in ClaimedRoots(leaf, proof), leafIndex \in 0..MaxIndex} :
           leaf \in Digests, proof \in Proofs}

\* the route: verifyProof on the four fields of the body
MerkleVerifyRoute(req) ==
    /\ mv = <<>>
    /\ mv' = <<[req |-> req,
                verified |-> verifyProof(req.leaf, req.proof, req.leafIndex, req.root)]>>
    /\ UNCHANGED <<leaves, app, started, returned, failed, batches, anchors, ver, rd, bh>>

\* res.json({ success: true, verified }): the route is free again
MerkleVerifyRespond ==
    /\ mv /= <<>>
    /\ mv' = <<>>
    /\ UNCHANGED <<leaves, app, started, returned, failed, batches, anchors, ver, rd, bh>>

\* ------------------------------------------------- the read-only routes
\* GET /merkle/proof/:leafIndex: getProof; null is answered 'Leaf not found'
ProofRoute(leafIndex) ==
    /\ rd = <<>>
    /\ rd' = <<[op |-> "proof", leafIndex |-> leafIndex,
                out |-> getProof(leaves, leafIndex)]>>
    /\ UNCHANGED <<leaves, app, started, returned, failed, batches, anchors, ver, mv, bh>>

\* GET /merkle/root: getCurrentRoot
RootRoute ==
    /\ rd = <<>>
    /\ rd' = <<[op |-> "root", leafIndex |-> 0, out |-> getCurrentRoot(leaves)]>>
    /\ UNCHANGED <<leaves, app, started, returned, failed, batches, anchors, ver, mv, bh>>

\* res.json or next(error): the request is answered
ReadRespond ==
    /\ rd /= <<>>
    /\ rd' = <<>>
    /\ UNCHANGED <<leaves, app, started, returned, failed, batches, anchors, ver, mv, bh>>

\* ------------------------------------------------------- createBatchHash
\* structured values: <<"s", text>> is a scalar already serialised and
\* <<"o", members>> an object with its members <<key, value>> in insertion order
Scalar(text) == <<"s", text>>
Object(members) == <<"o", members>>

\* obj[key]; <<>> for undefined
Field(obj, key) ==
    IF \E k \in 1..Len(obj) : obj[k][1] = key
    THEN <<obj[CHOOSE k \in 1..Len(obj) : obj[k][1] = key][2]>>
    ELSE <<>>

\* Object.keys(data)
ObjectKeys(obj) == [k \in 1..Len(obj) |-> obj[k][1]]

\* the property names of the records, in the order Array.prototype.sort gives
Alphabetical ==
    <<"batch_id", "crop", "farmer_id", "lat", "lng", "location", "metadata",
      "quantity", "timestamp", "unit">>

\* keys.sort()
ArraySort(keys) ==
    SelectSeq(Alphabetical, LAMBDA a : \E k \in 1..Len(keys) : keys[k] = a)

\* JSON.stringify(value, replacer) with an array replacer: at every nesting
\* level only the properties named in the array are written, in its order
RECURSIVE JSONstringifyReplacer(_, _)
JSONstringifyReplacer(value, replacer) ==
    IF value[1] = "s" THEN value[2]
    ELSE LET obj  == value[2]
             kept == SelectSeq(replacer, LAMBDA key : Field(obj, key) /= <<>>)
         IN  "{" \o Join([k \in 1..Len(kept) |->
                             kept[k] \o ":" \o
                             JSONstringifyReplacer(Field(obj, kept[k])[1], replacer)],
                         ",") \o "}"

\* hashData of an object: sha256 of JSON.stringify(data, Object.keys(data).sort())
hashData(data) ==
    hash(JSONstringifyReplacer(Object(data), ArraySort(ObjectKeys(data))))

\* createBatchHash: the six fields in a fixed order, then hashData
createBatchHash(batchData) ==
    LET get(key) == IF Field(batchData, key) = <<>> THEN Scalar("undefined")
                    ELSE Field(batchData, key)[1]
        canonical ==
            << <<"batch_id", get("batch_id")>>, <<"farmer_id", get("farmer_id")>>,
               <<"crop", get("crop")>>, <<"location", get("location")>>,
               <<"metadata", get("metadata")>>,
               <<"timestamp", IF Field(batchData, "timestamp") = <<>>
                              THEN Scalar(Timestamp(0)) ELSE get("timestamp")>> >>
    IN  hashData(canonical)

\* the batch records hashed: crop, latitude and quantity vary, and the same
\* fields are given in two key orders
BatchRecords ==
    UNION {
      { << <<"batch_id", Scalar(BatchId(1))>>, <<"farmer_id", Scalar(FarmerId)>>,
           <<"crop", Scalar(crop)>>,
           <<"location", Object(<< <<"lat", Scalar(lat)>>, <<"lng", Scalar("2")>> >>)>>,
           <<"metadata", Object(<< <<"quantity", Scalar(quantity)>>,
                                   <<"unit", Scalar("kg")>> >>)>>,
           <<"timestamp", Scalar(Timestamp(0))>> >>,
        << <<"timestamp", Scalar(Timestamp(0))>>,
           <<"metadata", Object(<< <<"quantity", Scalar(quantity)>>,
                                   <<"unit", Scalar("kg")>> >>)>>,
           <<"location", Object(<< <<"lat", Scalar(lat)>>, <<"lng", Scalar("2")>> >>)>>,
           <<"crop", Scalar(crop)>>, <<"farmer_id", Scalar(FarmerId)>>,
           <<"batch_id", Scalar(BatchId(1))>> >> } :
      crop \in {"rice", "wheat"}, lat \in {"1", "3"}, quantity \in {"5", "6"} }

\* const batchHash = createBatchHash(batchData): this call and the one before
HashBatch(batchData) ==
    /\ bh' = <<[data |-> batchData, digest |-> createBatchHash(batchData)]>>
              \o (IF bh = <<>> THEN <<>> ELSE <<bh[1]>>)
    /\ UNCHANGED <<leaves, app, started, returned, failed, batches, anchors, ver, mv, rd>>

\* ------------------------------------------------------------------ Next
\* a new request is taken by the lowest free handler (handlers are
\* interchangeable), while fewer than max calls were started
Accepts(p, max) ==
    /\ started < max
    /\ \A q \in Procs : q < p => app[q].pc /= "idle"

Next ==
    \/ \E p \in Procs : \E data \in RawData :
          Accepts(p, MaxAppends) /\ AppendRoute(p, data)
    \/ \E p \in Procs : \E crop \in Crops :
          Accepts(p, MaxAppends) /\ CreateBatch(p, crop)
    \/ \E p \in Procs : FindLast(p)
    \/ \E p \in Procs : Calculate(p)
    \/ \E p \in Procs : SaveLeaf(p)
    \/ \E p \in Procs : UpdateRoots(p)
    \/ \E p \in Procs : \E e \in Elapsed : SaveBatch(p, e)
    \/ AnchorScript
    \/ \E req \in Requests : VStart(req)
    \/ VSignature
    \/ \E dbError \in BOOLEAN : VLeafIndex(dbError)
    \/ VInclusion
    \/ VAnchor
    \/ \E dbError \in BOOLEAN : VRespIndex(dbError)
    \/ VRespProof
    \/ VRespond

\* the whole system: append and creation requests on concurrent handlers,
\* the anchoring script and verification requests
Spec == Init /\ [][Next]_vars

\* the ledger alone, its appends on concurrent handlers
LedgerNext ==
    \/ \E p \in Procs : \E data \in RawData :
          Accepts(p, MaxLeaves) /\ AppendRoute(p, data)
    \/ \E p \in Procs : \E crop \in Crops :
          Accepts(p, MaxLeaves) /\ CreateBatch(p, crop)
    \/ \E p \in Procs : FindLast(p)
    \/ \E p \in Procs : Calculate(p)
    \/ \E p \in Procs : SaveLeaf(p)
    \/ \E p \in Procs : UpdateRoots(p)
    \/ \E p \in Procs : \E e \in Elapsed : SaveBatch(p, e)

LedgerSpec == Init /\ [][LedgerNext]_vars

\* the ledger alone, one append at a time (no two calls overlap)
SeqNext ==
    \/ \E data \in RawData : Accepts(1, MaxLeaves) /\ AppendRoute(1, data)
    \/ \E crop \in Crops : Accepts(1, MaxLeaves) /\ CreateBatch(1, crop)
    \/ FindLast(1)
    \/ Calculate(1)
    \/ SaveLeaf(1)
    \/ UpdateRoots(1)
    \/ \E e \in Elapsed : SaveBatch(1, e)

SeqSpec == Init /\ [][SeqNext]_vars

\* the steps of a verification request after its batch lookup
VerifySteps ==
    \/ VSignature
    \/ \E dbError \in BOOLEAN : VLeafIndex(dbError)
    \/ VInclusion
    \/ VAnchor
    \/ \E dbError \in BOOLEAN : VRespIndex(dbError)
    \/ VRespProof

\* batch creations, one at a time, the anchoring script and verification
\* requests
VerifyNext ==
    \/ \E crop \in Crops : Accepts(1, MaxAppends) /\ CreateBatch(1, crop)
    \/ FindLast(1)
    \/ Calculate(1)
    \/ SaveLeaf(1)
    \/ UpdateRoots(1)
    \/ \E e \in Elapsed : SaveBatch(1, e)
    \/ AnchorScript
    \/ \E req \in Requests : VStart(req)
    \/ VerifySteps
    \/ VRespond

\* each await of the handler resolves: a started verification keeps running
VerifySpec == Init /\ [][VerifyNext]_vars /\ WF_vars(VerifySteps)

\* raw appends, one at a time, on a longer ledger
RawSeqNext ==
    \/ \E data \in RawData : Accepts(1, MaxSeqLeaves) /\ AppendRoute(1, data)
    \/ FindLast(1)
    \/ Calculate(1)
    \/ SaveLeaf(1)
    \/ UpdateRoots(1)

RawSeqSpec == Init /\ [][RawSeqNext]_vars

\* batch hashes computed for one record after another
BatchHashNext == \E batchData \in BatchRecords : HashBatch(batchData)

BatchHashSpec == Init /\ [][BatchHashNext]_vars

\* read requests arriving while appends (one at a time) grow the ledger
ReadNext ==
    \/ \E data \in RawData : Accepts(1, MaxLeaves) /\ AppendRoute(1, data)
    \/ FindLast(1)
    \/ Calculate(1)
    \/ SaveLeaf(1)
    \/ UpdateRoots(1)
    \/ \E leafIndex \in 0..MaxIndex : ProofRoute(leafIndex)
    \/ RootRoute
    \/ ReadRespond

ReadSpec == Init /\ [][ReadNext]_vars

\* proof verification requests, arriving while appends (one at a time)
\* grow the ledger
ProofNext ==
    \/ \E data \in RawData : Accepts(1, MaxLeaves) /\ AppendRoute(1, data)
    \/ FindLast(1)
    \/ Calculate(1)
    \/ SaveLeaf(1)
    \/ UpdateRoots(1)
    \/ \E req \in MerkleVerifyRequests : MerkleVerifyRoute(req)
    \/ MerkleVerifyRespond

ProofSpec == Init /\ [][ProofNext]_vars


\* ---------------------------------------------------------------- claims
\* calls that are inside appendLeaf (a creation route at "qr" has its result)
AppendInFlight == {p \in Procs : app[p].pc \in {"findLast", "calc", "save", "update"}}

\* the stored hashes in index order
LeafHashes == LET all == SortedByIndex(leaves) IN [k \in 1..Len(all) |-> all[k].hash]

\* the stored document with index i
LeafAt(i) == CHOOSE d \in leaves : d.index = i

\* the reference tree of the specification: adjacent pairs left to right, an
\* odd last element paired with itself, until one digest is left
RefPairs(hs) ==
    [k \in 1..((Len(hs) + 1) \div 2) |->
        hash(hs[2 * k - 1] \o (IF 2 * k <= Len(hs) THEN hs[2 * k] ELSE hs[2 * k - 1]))]

RECURSIVE RefRoot(_)
RefRoot(hs) == IF Len(hs) = 1 THEN hs[1] ELSE RefRoot(RefPairs(hs))

\* C1 (P1, proof soundness at insertion): with appends that do not overlap,
\* the leaf stored by each append verifies, with its stored proof and index,
\* against the root that same append returned.
C1_ProofSoundAtInsertion ==
    \A r \in returned : \A d \in leaves :
        d.index = r.index => verifyProof(d.hash, d.proof, d.index, r.root)

\* C2 (invariant I1 over time): in every state, for every stored leaf, the
\* proof getProof returns for its index verifies against the root it carries.
C2_StoredProofsVerify ==
    \A d \in leaves :
        LET p == getProof(leaves, d.index)[1]
        IN  verifyProof(p.leaf, p.proof, p.leafIndex, p.root)

\* C3 (P3, append-only, no index reuse): once the N calls started so far are
\* over, under any interleaving, all N have returned and the indices they
\* returned are exactly 0..N-1, each once.
C3_IndicesExactlyOnce ==
    AppendInFlight = {} =>
        /\ failed = 0
        /\ Cardinality(returned) = started
        /\ {r.index : r \in returned} = 0..(started - 1)

\* C4: after overlapping appends have all completed, getCurrentRoot() is the
\* Merkle root (odd element duplicated) over the hashes of all stored leaves
\* in index order.
C4_RootReflectsAllLeaves ==
    (AppendInFlight = {} /\ failed = 0 /\ leaves /= {}) =>
        getCurrentRoot(leaves) = <<RefRoot(LeafHashes)>>

\* C5 (scenario C): after three appends A, B, C the proof stored for C is
\* [C, combine(A,B)], the unpaired C being its own sibling, and it verifies
\* against combine(combine(A,B), combine(C,C)).
C5_ScenarioC ==
    (AppendInFlight = {} /\ Cardinality(leaves) = 3 /\ Cardinality(returned) = 3) =>
        LET A  == LeafHashes[1]
            B  == LeafHashes[2]
            C  == LeafHashes[3]
            AB == hash(A \o B)
            CC == hash(C \o C)
        IN  /\ LeafAt(2).proof = <<C, AB>>
            /\ verifyProof(C, LeafAt(2).proof, 2, hash(AB \o CC))

\* C6 (scenario B): after appending A then B to the empty ledger the current
\* root is combine(hash(A), hash(B)), the proof obtained for A is [hash(B)],
\* the proof obtained for B is [hash(A)], and both verify against that root.
C6_ScenarioB ==
    (AppendInFlight = {} /\ Cardinality(leaves) = 2 /\ Cardinality(returned) = 2) =>
        LET A  == LeafHashes[1]
            B  == LeafHashes[2]
            AB == hash(A \o B)
            pA == getProof(leaves, 0)[1]
            pB == getProof(leaves, 1)[1]
        IN  /\ getCurrentRoot(leaves) = <<AB>>
            /\ pA.proof = <<B>>
            /\ pB.proof = <<A>>
            /\ verifyProof(pA.leaf, pA.proof, pA.leafIndex, AB)
            /\ verifyProof(pB.leaf, pB.proof, pB.leafIndex, AB)


\* the root the append of this batch's leaf returned (merkle_root of the
\* creation response): the ledger root at the time of the leaf's insertion
InsertionRoot(batch) == (CHOOSE r \in returned : r.leaf = batch.merkle_leaf).root

\* the steps the current verification has performed
Performed(step) == \E k \in 1..Len(ver.log) : ver.log[k] = step

\* the proof the inclusion check fetched passed verifyProof
InclusionPassed ==
    /\ ver.checked /= <<>>
    /\ verifyProof(ver.checked[1].leaf, ver.checked[1].proof,
                   ver.checked[1].leafIndex, ver.checked[1].root)

\* C7 (InclusionCheck): a verification that reached the inclusion check and
\* found no stored leaf with the batch's recorded leaf hash, or whose fetched
\* proof failed verifyProof, ends rejected for the inclusion proof; and a
\* Verified result is produced only if the leaf whose hash is the batch's
\* recorded leaf hash passed verifyProof.
C7_InclusionDecides ==
    /\ (/\ ver.pc = "done"
        /\ Performed("inclusion")
        /\ \/ ~ \E d \in leaves : d.hash = ver.batch[1].merkle_leaf
           \/ ~InclusionPassed)
       => (~ver.result.verified /\ ver.result.reason = "Merkle proof verification failed")
    /\ ver.result.verified =>
          (InclusionPassed /\ ver.checked[1].leaf = ver.batch[1].merkle_leaf)

\* C8 (scenario F, signature short-circuit): when a signed payload is supplied
\* and its signature does not verify against the reconstructed message and
\* the supplied public key, the result is the invalid-signature rejection and
\* neither the inclusion check nor the anchor check was performed.
C8_SignatureShortCircuit ==
    (/\ ver.pc = "done"
     /\ ver.qr /= <<>>
     /\ ver.batch /= <<>>
     /\ ~verifyQRSignature(ver.qr[1], ver.batch[1]))
    => /\ ~ver.result.verified
       /\ ver.result.reason = "Invalid QR signature"
       /\ ver.log = <<"sig">>
       /\ ver.checked = <<>>
       /\ ver.result.merkle_proof = <<>>

\* a payload signed by another key pair was submitted and was rejected for it
C8_Witness ==
    /\ ver.pc = "done"
    /\ ver.qr /= <<>>
    /\ ver.batch /= <<>>
    /\ ver.qr[1] = Forged(ver.batch[1])
    /\ ver.result.reason = "Invalid QR signature"

\* C9 (scenario E, anchored verdict): the anchor check, reached after the
\* signature check (if any) and the inclusion check passed, yields
\* Verified(mode=anchored) when, and only when, the root the ledger had at
\* this leaf's insertion is anchored in the contract.
C9_AnchoredVerdict ==
    [][(ver.pc = "anchor" /\ ver'.pc /= "anchor") =>
          ((ver'.result.verified /\ ver'.result.mode = "both")
              <=> verifyAnchor(InsertionRoot(ver.batch[1])))]_vars

\* C10 (scenario D, unanchored is weaker, not rejected): the anchor check is
\* never waiting on anything; once the inclusion check has passed and the
\* anchor check has run, the result is Verified, never a rejection, and while
\* the insertion root is not anchored its mode is merkle.
C10_UnanchoredIsMerkle ==
    /\ ver.pc = "anchor" => ENABLED VAnchor
    /\ (InclusionPassed /\ ver.pc /= "anchor") =>
          /\ ver.result.verified
          /\ Performed("anchor")
          /\ ~verifyAnchor(InsertionRoot(ver.batch[1])) =>
                /\ ver.result.mode = "merkle"
                /\ ver.result.reason =
                     "Verified through Merkle tree (blockchain anchor pending or unavailable)"

\* a correctly signed payload of a batch whose insertion root is not anchored
\* was verified in mode merkle
C10_Witness ==
    /\ ver.pc = "done"
    /\ ver.qr /= <<>>
    /\ ver.log = <<"sig", "inclusion", "anchor">>
    /\ ver.result.verified
    /\ ver.result.mode = "merkle"
    /\ ~verifyAnchor(InsertionRoot(ver.batch[1]))

\* C11 (P2, tamper detection, index): when verifyProof accepted a proof
\* (leaf, siblings, index, root), it rejects the same leaf, siblings and root
\* with any other non-negative index.
C11_IndexTamperDetected ==
    (mv /= <<>> /\ mv[1].verified) =>
        \A j \in 0..MaxIndex :
            j /= mv[1].req.leafIndex =>
                ~verifyProof(mv[1].req.leaf, mv[1].req.proof, j, mv[1].req.root)

\* C12 (P2, tamper detection, hashes): when verifyProof accepted a proof
\* (leaf, siblings, index, root), it rejects it once the leaf hash, any single
\* sibling, or the claimed root is replaced by a different value.
C12_HashTamperDetected ==
    (mv /= <<>> /\ mv[1].verified) =>
        LET r == mv[1].req
            Values == Digests \cup ClaimedRoots(r.leaf, r.proof)
        IN  /\ \A l \in Values \ {r.leaf} :
                  ~verifyProof(l, r.proof, r.leafIndex, r.root)
            /\ \A k \in 1..Len(r.proof) : \A s \in Values \ {r.proof[k]} :
                  ~verifyProof(r.leaf, [r.proof EXCEPT ![k] = s], r.leafIndex, r.root)
            /\ \A t \in Values \ {r.root} :
                  ~verifyProof(r.leaf, r.proof, r.leafIndex, t)

\* a proof of two siblings at an odd index was submitted and accepted
C12_Witness ==
    /\ mv /= <<>>
    /\ mv[1].verified
    /\ Len(mv[1].req.proof) = 2
    /\ mv[1].req.leafIndex = 1

\* C13 (invariant I2): in every reachable state, whatever appends overlapped,
\* succeeded or failed, the stored indices are exactly 0..N-1 for the leaf
\* count N, no two leaves share an index, and in every step each stored leaf
\* keeps its index (no index is reused for, or reassigned to, another leaf).
C13_DenseIndices ==
    /\ [](/\ {d.index : d \in leaves} = 0..(Cardinality(leaves) - 1)
          /\ \A d, e \in leaves : d.index = e.index => d = e)
    /\ [][\A d \in leaves : \E e \in leaves' :
              /\ e.index = d.index
              /\ e.hash = d.hash
              /\ e.batch_id = d.batch_id]_vars

\* an overlapping append was refused and the ledger went on growing
C13_Witness ==
    /\ failed >= 1
    /\ Cardinality(leaves) >= 2

\* C14 (invariant I3): once the appends started so far have completed,
\* getCurrentRoot() is the root that the append of the highest-index leaf
\* returned, which is also the root stored on that leaf.
C14_CurrentRootIsLastReturned ==
    (AppendInFlight = {} /\ leaves /= {}) =>
        LET last == LastLeaf(leaves)[1]
        IN  /\ getCurrentRoot(leaves) = <<last.root_hash>>
            /\ \E r \in returned :
                  /\ r.index = last.index
                  /\ r.leaf = last.hash
                  /\ getCurrentRoot(leaves) = <<r.root>>

\* the reference fold of the specification after the first k siblings: the
\* running digest is combined with sibling k on the left when the index,
\* halved k-1 times, is even and on the right when it is odd
RECURSIVE RefFold(_, _, _, _)
RefFold(leaf, siblings, index, k) ==
    IF k = 0 THEN leaf
    ELSE LET computed == RefFold(leaf, siblings, index, k - 1)
             i        == index \div (2 ^ (k - 1))
         IN  IF i % 2 = 0 THEN hash(computed \o siblings[k])
                          ELSE hash(siblings[k] \o computed)

\* C15: the answer of verifyProof(leaf, siblings, index, root) is exactly
\* whether the reference fold of leaf, siblings and index equals root,
\* whatever the ledger holds at the time, and a step that answers a proof
\* verification changes nothing of the ledger.
C15_VerifyProofIsReferenceFold ==
    /\ [](mv /= <<>> =>
            LET r == mv[1].req
            IN  mv[1].verified <=>
                  (RefFold(r.leaf, r.proof, r.leafIndex, Len(r.proof)) = r.root))
    /\ [][mv' /= mv => UNCHANGED <<leaves, app, started, returned, failed,
                                    batches, anchors>>]_vars

\* a proof of one sibling at index 2 was accepted while the ledger held leaves
C15_Witness ==
    /\ mv /= <<>>
    /\ mv[1].verified
    /\ Len(mv[1].req.proof) = 1
    /\ mv[1].req.leafIndex = 2
    /\ leaves /= {}

\* the same key/value members, whatever their order
SameMembers(x, y) ==
    {x[k] : k \in 1..Len(x)} = {y[k] : k \in 1..Len(y)}

\* C16 (P4, canonicalization determinism in append): two records with the
\* same key/value members in different key order get the same leafHash from
\* append.
C16_AppendCanonical ==
    \A p, q \in Procs :
        (/\ app[p].pc /= "idle"
         /\ app[q].pc /= "idle"
         /\ SameMembers(app[p].data, app[q].data))
        => app[p].leafHash = app[q].leafHash

\* a check of the current verification failed: the batch was not found, the
\* supplied payload's signature did not verify, the leaf lookup gave no
\* document, or no proof was fetched or the fetched proof did not verify
CheckFailed ==
    \/ ver.batch = <<>>
    \/ ver.qr /= <<>> /\ ~verifyQRSignature(ver.qr[1], ver.batch[1])
    \/ Performed("inclusion") /\ (~ver.leafFound \/ ~InclusionPassed)

\* C17 (failures are ordinary data): every answered verification carries a
\* reason string, and whenever one of its checks failed (unknown batch, bad
\* or malformed signature or key, missing leaf, failing proof) the result has
\* verified = false; verifySignature answers false on malformed input.
C17_FailuresAreData ==
    /\ \A b \in batches :
          ~verifySignature("m", Malformed(b).signature, Malformed(b).farmer_pubkey)
    /\ ver.pc = "done" =>
          /\ ver.result.reason /= ""
          /\ CheckFailed => ~ver.result.verified

\* the identifier the current request supplied, in its payload or directly
SuppliedId == IF ver.qr /= <<>> THEN ver.qr[1].batch_id ELSE ver.batch_id[1]

\* C18 (Start transition): a verification whose supplied identifier (from the
\* payload or given directly) names no active batch record is rejected at
\* once as not found, and no signature, inclusion or anchor check was made.
C18_UnknownBatchRejected ==
    (/\ ver.pc /= "idle"
     /\ ~ \E b \in batches : b.isActive /\ b.batch_id = SuppliedId)
    => /\ ver.pc = "done"
       /\ ~ver.result.verified
       /\ ver.result.reason = "Batch not found in database"
       /\ ver.log = <<>>
       /\ ver.checked = <<>>
       /\ ver.result.merkle_proof = <<>>

\* with batches on record, a payload naming an unknown batch was rejected
C18_Witness ==
    /\ batches /= {}
    /\ ver.pc = "done"
    /\ ver.qr = <<UnknownQR>>
    /\ ver.result.reason = "Batch not found in database"

C20_ScenarioA ==
    /\ leaves = {} => getCurrentRoot(leaves) = <<>>
    /\ \A r \in returned :
          r.index = 0 =>
              /\ r.root = r.leaf
              /\ getProof(leaves, 0) /= <<>>
              /\ getProof(leaves, 0)[1].leaf = r.leaf
              /\ getProof(leaves, 0)[1].proof = <<>>
    /\ returned /= {} => \E r \in returned : r.index = 0

\* the first append on the empty ledger has returned and is the only leaf
C20_Witness ==
    /\ Cardinality(leaves) = 1
    /\ \E r \in returned : r.index = 0 /\ getCurrentRoot(leaves) = <<r.leaf>>

\* C21: getProof(i) answers with the stored hash, proof, index and root of
\* leaf i when 0 <= i < N for the leaf count N, and with not-found when
\* i >= N (any i on the empty ledger); the read leaves the ledger unchanged.
C21_GetProofOrNotFound ==
    [][(rd = <<>> /\ rd' /= <<>> /\ rd'[1].op = "proof") =>
          LET i == rd'[1].leafIndex
          IN  /\ i < Cardinality(leaves) =>
                    /\ \E d \in leaves : d.index = i
                    /\ rd'[1].out = <<[leaf |-> LeafAt(i).hash,
                                       proof |-> LeafAt(i).proof,
                                       leafIndex |-> i,
                                       root |-> LeafAt(i).root_hash]>>
              /\ i >= Cardinality(leaves) => rd'[1].out = <<>>
              /\ leaves' = leaves]_vars

\* an index beyond the last leaf of a non-empty ledger was answered not-found
C21_Witness ==
    /\ rd /= <<>>
    /\ rd[1].op = "proof"
    /\ leaves /= {}
    /\ rd[1].leafIndex >= Cardinality(leaves)
    /\ rd[1].out = <<>>

\* the message signed when the batch was created
SignedMessage(b) ==
    JSONstringify(BatchData(b.batch_id, b.farmer_id, b.crop, b.location,
                            b.metadata, Timestamp(0)))

\* C22 (P5, signature round-trip): the signature made at creation verifies
\* over the signed message with the public key of the signing key; and a
\* signature check passes only for exactly that message, that signature and
\* that public key: with any of them replaced by a different value it fails.
C22_SignatureRoundTrip ==
    /\ \A b \in batches :
          verifySignature(SignedMessage(b), b.qr_data.signature,
                          b.qr_data.farmer_pubkey)
    /\ (Performed("sig") /\ ver.result.reason /= "Invalid QR signature") =>
          LET b == ver.batch[1]
              q == ver.qr[1]
          IN  /\ JSONstringify(BatchData(q.batch_id, q.farmer_id, b.crop, b.location,
                                          b.metadata, q.timestamp)) = SignedMessage(b)
              /\ q.signature = b.qr_data.signature
              /\ q.farmer_pubkey = b.qr_data.farmer_pubkey

\* C23 (no retroactive mutation): in every step of an append each stored
\* leaf keeps its index, hash, proof and recorded root, and the only change
\* to the leaf store is the addition of the one new leaf.
C23_EarlierLeavesUntouched ==
    [][/\ \A d \in leaves : d \in leaves'
       /\ Cardinality(leaves' \ leaves) <= 1]_vars

\* C24 (signature reconstruction round-trip): the payload issued at a
\* batch's creation, submitted unmodified while the batch is unmodified,
\* passes the signature check: the message rebuilt from the payload and the
\* stored batch is the message signed at creation, timestamp included.
C24_IssuedPayloadVerifies ==
    /\ \A b \in batches :
          JSONstringify(BatchData(b.qr_data.batch_id, b.qr_data.farmer_id, b.crop,
                                  b.location, b.metadata, b.qr_data.timestamp))
            = SignedMessage(b)
    /\ (/\ Performed("sig")
        /\ ver.qr[1] = ver.batch[1].qr_data)
       => ver.result.reason /= "Invalid QR signature"

\* appends that have saved their leaf and not yet updated the roots
Uncommitted == {p \in Procs : app[p].pc = "update"}

\* the ledger as it was before the appends that are not yet committed
PreAppend == {d \in leaves : \A p \in Uncommitted : d.index /= app[p].newIndex}

\* C25 (consistent snapshot): a getProof(i) or getCurrentRoot() that runs
\* while an append has saved its leaf and not yet committed its root update
\* returns what the pre-append ledger gives (the new leaf and its root are
\* not visible before the commit), and in a state with no append in that
\* window all stored leaves carry the root of one ledger version.
C25_ReadersSeeSnapshot ==
    /\ [](Uncommitted = {} => \A d, e \in leaves : d.root_hash = e.root_hash)
    /\ [][(rd = <<>> /\ rd' /= <<>> /\ Uncommitted /= {}) =>
             rd'[1].out = IF rd'[1].op = "proof"
                          THEN getProof(PreAppend, rd'[1].leafIndex)
                          ELSE getCurrentRoot(PreAppend)]_vars

\* C26 (root construction): the root returned by the N-th of a sequence of
\* appends is the reference root over the hashes of leaves 0..N-1: adjacent
\* pairs combined left to right, an odd last element paired with itself,
\* until one hash remains.
C26_RootIsReferenceRoot ==
    \A r \in returned :
        /\ r.index < Len(LeafHashes)
        /\ r.root = RefRoot(SubSeq(LeafHashes, 1, r.index + 1))

\* the third append returned the root over an odd number of leaves
C26_Witness ==
    \E r \in returned :
        /\ r.index = 2
        /\ r.root = hash(hash(LeafHashes[1] \o LeafHashes[2])
                          \o hash(LeafHashes[3] \o LeafHashes[3]))

\* the number of levels of even length in the tree over n leaves
RECURSIVE EvenLevels(_)
EvenLevels(n) ==
    IF n <= 1 THEN 0
    ELSE (IF n % 2 = 0 THEN 1 ELSE 0) + EvenLevels((n + 1) \div 2)

IsPowerOfTwo(n) == \E k \in 0..n : 2 ^ k = n

\* C27 (characterisation of stored proofs): the proof stored for the leaf
\* whose append made the ledger N leaves long has one sibling per tree level
\* of even length and none for a level of odd length, and it verifies
\* against the root that append returned exactly when N is a power of two.
C27_StoredProofShape ==
    \A r \in returned : \A d \in leaves :
        d.index = r.index =>
            /\ Len(d.proof) = EvenLevels(r.index + 1)
            /\ verifyProof(d.hash, d.proof, d.index, r.root)
                  <=> IsPowerOfTwo(r.index + 1)

\* the third append stored a one-sibling proof that does not verify
C27_Witness ==
    \E r \in returned : \E d \in leaves :
        /\ r.index = 2
        /\ d.index = 2
        /\ Len(d.proof) = 1
        /\ ~verifyProof(d.hash, d.proof, d.index, r.root)

\* C28 (the root distinguishes ledger contents): every append changes the
\* current root: the root an append returned differs from the root returned
\* by the append before it, also when both appended the same record.
C28_AppendChangesRoot ==
    \A r1, r2 \in returned :
        r2.index = r1.index + 1 => r2.root /= r1.root

\* C29 (the attached proof is valid): whenever a verification answers
\* verified = true with a merkle_proof p, verifyProof(p.leaf, p.proof,
\* p.leafIndex, p.root) is true and p.leaf is the batch's recorded leaf hash,
\* also when an append ran between the inclusion check and the final
\* getProof.
C29_AttachedProofValid ==
    (/\ ver.pc = "done"
     /\ ver.result.verified
     /\ ver.result.merkle_proof /= <<>>)
    => LET p == ver.result.merkle_proof[1]
       IN  /\ verifyProof(p.leaf, p.proof, p.leafIndex, p.root)
           /\ p.leaf = ver.batch[1].merkle_leaf

\* C30 (the batch hash binds every field): two batch records with equal
\* fields get the same digest from createBatchHash whatever their top-level
\* key order, and two records that differ in any value, a value nested in
\* location or metadata included, get different digests.
C30_BatchHashBindsFields ==
    Len(bh) = 2 =>
        LET x == bh[1].data
            y == bh[2].data
            equalFields == {x[k] : k \in 1..Len(x)} = {y[k] : k \in 1..Len(y)}
        IN  (bh[1].digest = bh[2].digest) <=> equalFields

====
